---- MODULE Spec2Model ----
(***************************************************************************)
(* The progress simulator hook useProgressLoader                           *)
(* (client/src/hooks/useProgressLoader.ts): React state progress,          *)
(* currentStep, isLoading; startDynamicProgress with its per-run closure   *)
(* (startTime, currentWeight, stepIndex, apiPromise), the animation-frame  *)
(* loop animateProgress, the continuation after `await apiPromise`, the    *)
(* 500 ms completion timer and resetProgress.                              *)
(*                                                                         *)
(* Spec is one hook instance with up to MaxRuns overlapping calls of       *)
(* startDynamicProgress; SpecSingleRun is one call on a fresh instance,    *)
(* with longer step lists, larger weights and a longer clock.              *)
(*                                                                         *)
(* Time is in milliseconds; the clock advances in steps of Granule ms.     *)
(* Progress is a JavaScript number; it is modelled as an exact fraction    *)
(* [n, d] in lowest terms (d = 0 is NaN), so rounding of the floating      *)
(* point division is not modelled.                                         *)
(***************************************************************************)
EXTENDS Integers, Sequences, FiniteSets, TLC

\* ---------------------------------------------------------------- bounds
\* Spec: one hook instance, up to MaxRuns calls of startDynamicProgress
MaxRuns == 2
MaxClock == 4
MaxSteps == 2
MaxWeight == 1
\* SpecDegenerate: one call with an empty list or weights of 0
DegMaxClock == 3
DegMaxSteps == 2
DegMaxWeight == 1
\* SpecStepsOnly: one call of start(steps), completed by hand
OnlyMaxClock == 4
OnlyMaxSteps == 2
OnlyMaxWeight == 2
OnlyMaxCompletes == 2
\* SpecServer: the users map holds at most this many entries
SrvMaxUsers == 2
\* SpecFixed: one call of startProgress, durations in units of Granule
FixedMaxClock == 5
FixedMaxSteps == 2
FixedMaxDuration == 2
\* SpecSingleRun: one call of startDynamicProgress, larger inputs
RunMaxClock == 6
RunMaxSteps == 3
RunMaxWeight == 2
RunMaxCallTime == 1

\* ------------------------------------------------------ program constants
stepDuration == 2000
ProgressCap == 98
CompleteDelay == 500
CompleteLabel == "Processing complete! Loading results..."

\* the clock advances in steps of half a step slot
Granule == stepDuration \div 2

\* ------------------------------------------------------------ arithmetic
Min(a, b) == IF a <= b THEN a ELSE b

RECURSIVE GCD(_, _)
GCD(a, b) == IF b = 0 THEN a ELSE GCD(b, a % b)

\* the number n/d (n >= 0, d >= 0) in lowest terms; 0/0 is NaN, n/0 Infinity
Num(n, d) ==
    IF d = 0 THEN [n |-> IF n = 0 THEN 0 ELSE 1, d |-> 0]
    ELSE [n |-> n \div GCD(n, d), d |-> d \div GCD(n, d)]

IsNaN(x) == x.n = 0 /\ x.d = 0

\* x <= y on numbers; false when either is NaN, as in JavaScript
Leq(x, y) ==
    /\ ~IsNaN(x)
    /\ ~IsNaN(y)
    /\ IF x.d = 0 THEN y.d = 0
       ELSE IF y.d = 0 THEN TRUE
       ELSE x.n * y.d <= y.n * x.d

\* Math.min(x, y): NaN when either argument is NaN
MathMin(x, y) ==
    IF IsNaN(x) \/ IsNaN(y) THEN Num(0, 0)
    ELSE IF Leq(x, y) THEN x ELSE y

\* --------------------------------------------------------------- inputs
Labels == <<"Fetching", "Analyzing", "Scoring", "Ranking", "Summarising", "Rendering">>

\* ProgressStep[]: step i of a list carries the label Labels[i]
StepsOfWeights(ws) == [i \in 1..Len(ws) |-> [label |-> Labels[i], weight |-> ws[i]]]

\* non-empty step lists of at most maxSteps steps with weights 1..maxWeight
StepLists(maxSteps, maxWeight) ==
    {StepsOfWeights(ws) : ws \in UNION {[1..k -> 1..maxWeight] : k \in 1..maxSteps}}

\* step lists a caller can also pass: empty, or with weights of 0
DegenerateStepLists(maxSteps, maxWeight) ==
    {StepsOfWeights(ws) : ws \in UNION {[1..k -> 0..maxWeight] : k \in 0..maxSteps}}

Values == {"v1", "v2"}
Errors == {"e1", "e2"}

RECURSIVE SumWeights(_, _)
SumWeights(steps, k) == IF k = 0 THEN 0 ELSE SumWeights(steps, k - 1) + steps[k].weight

\* steps.reduce((sum, step) => sum + step.weight, 0)
totalWeight(steps) == SumWeights(steps, Len(steps))

\* ---------------------------------------------------------------- state
VARIABLES progress, currentStep, isLoading, now, runs, lastCall

\* the state of the server of part_005: the users map (ids are 1, 2, ...),
\* each client's session, each client's request handler waiting at an
\* await, and the latest response sent
VARIABLES users, sessions, inflight, lastResponse

hookVars == <<progress, currentStep, isLoading, now, runs, lastCall>>
serverVars == <<users, sessions, inflight, lastResponse>>
vars == <<progress, currentStep, isLoading, now, runs, lastCall,
          users, sessions, inflight, lastResponse>>

NoTimer == -1
Pending == [state |-> "pending", value |-> "none"]

\* the clients (browsers, each with its session cookie) that send requests
Clients == {"c1", "c2"}

\* a SimpleUser; id 0 and empty strings stand for undefined. firstName stands
\* for the profile fields, all of which the handlers treat alike
NoUser == [id |-> 0, email |-> "", password |-> "", firstName |-> "",
           stripeCustomerId |-> "", subscriptionPlan |-> ""]

\* req.session of a client that has not logged in
NoSession == [userId |-> 0, user |-> NoUser]

\* no handler of the client is waiting at an await; otherwise the route and
\* the handler's local variables
Idle == [route |-> "none", user |-> NoUser, email |-> "", password |-> "",
         firstName |-> "", plan |-> ""]

NoResponse == [route |-> "none", status |-> 0, body |-> [message |-> "none"]]

Init ==
    /\ progress = Num(0, 1)
    /\ currentStep = ""
    /\ isLoading = FALSE
    /\ now = 0
    /\ runs = <<>>
    /\ lastCall = [kind |-> "none", run |-> 0]
    /\ users = <<>>
    /\ sessions = [c \in Clients |-> NoSession]
    /\ inflight = [c \in Clients |-> Idle]
    /\ lastResponse = NoResponse

\* ------------------------------------------------------- animateProgress
\* Math.min(Math.floor(elapsed / stepDuration), steps.length - 1)
targetStep(steps, elapsed) == Min(elapsed \div stepDuration, Len(steps) - 1)

\* Advance with the accumulation dropped: the index moves, currentWeight stays
Advance_NoAccumulate(run, elapsed) ==
    IF targetStep(run.steps, elapsed) > run.stepIndex
    THEN [run EXCEPT !.stepIndex = targetStep(run.steps, elapsed)]
    ELSE run

\* Advance that moves to the next step only, whatever targetStep is
Advance_NextStep(run, elapsed) ==
    IF targetStep(run.steps, elapsed) > run.stepIndex
    THEN [run EXCEPT !.currentWeight = @ + run.steps[run.stepIndex + 1].weight,
                     !.stepIndex = @ + 1]
    ELSE run

\* the closure variables after the `if (targetStep > stepIndex)` block;
\* stepIndex is 0-based as in the source, steps[i] of the source is steps[i+1]
Advance(run, elapsed) ==
    IF targetStep(run.steps, elapsed) > run.stepIndex
    THEN [run EXCEPT !.currentWeight = @ + run.steps[run.stepIndex + 1].weight,
                     !.stepIndex = targetStep(run.steps, elapsed)]
    ELSE run

\* TickProgress with both Math.min clamps dropped
TickProgress_Unclamped(run, elapsed) ==
    LET stepElapsed == elapsed - run.stepIndex * stepDuration
        w == run.steps[run.stepIndex + 1].weight
    IN Num((run.currentWeight * stepDuration + w * stepElapsed) * ProgressCap,
           totalWeight(run.steps) * stepDuration)

\* TickProgress scaled to 100 in place of 98
TickProgress_Percent(run, elapsed) ==
    LET stepElapsed == elapsed - run.stepIndex * stepDuration
        w == run.steps[run.stepIndex + 1].weight
    IN MathMin(Num((run.currentWeight * stepDuration
                      + w * Min(stepElapsed, stepDuration)) * 100,
                   totalWeight(run.steps) * stepDuration),
               Num(100, 1))

\* TickProgress with the active step credited in full from its first tick
TickProgress_NoPartial(run, elapsed) ==
    LET w == run.steps[run.stepIndex + 1].weight
    IN MathMin(Num((run.currentWeight + w) * ProgressCap, totalWeight(run.steps)),
               Num(ProgressCap, 1))

\* the value handed to setProgress for closure state `run` at `elapsed`
TickProgress(run, elapsed) ==
    LET stepElapsed == elapsed - run.stepIndex * stepDuration
        w == run.steps[run.stepIndex + 1].weight
        \* (currentWeight + weight * min(stepElapsed / stepDuration, 1))
        \*     / totalWeight * 98
        totalProgress == Num((run.currentWeight * stepDuration
                                + w * Min(stepElapsed, stepDuration)) * ProgressCap,
                             totalWeight(run.steps) * stepDuration)
    IN MathMin(totalProgress, Num(ProgressCap, 1))

\* whether a tick leaves an animation frame requested: `if (apiPromise)`
\* tests the promise object, which is truthy whatever its state
RequestsFrame(api) == TRUE

\* Shows without the guard: the label and progress are always computed
Shows_Unguarded(run) == TRUE

\* `if (stepIndex < steps.length)`
Shows(run) == run.stepIndex < Len(run.steps)

\* one execution of animateProgress for closure state `run` at clock t (ms):
\* the new closure state and the writes to the React state
\* a read of steps[i].weight or steps[i].label with steps[i] undefined throws
\* a TypeError out of animateProgress, before it requests the next frame
animateProgress(run, t) ==
    LET elapsed == t - run.startTime
        throws38 == /\ targetStep(run.steps, elapsed) > run.stepIndex
                    /\ run.stepIndex + 1 \notin DOMAIN run.steps
        adv == IF throws38 THEN run ELSE Advance(run, elapsed)
        throws43 == /\ ~throws38
                    /\ Shows(adv)
                    /\ adv.stepIndex + 1 \notin DOMAIN adv.steps
        thrown == throws38 \/ throws43
        shows == ~thrown /\ Shows(adv)
    IN [run |-> [adv EXCEPT !.frame = ~thrown /\ RequestsFrame(adv.apiPromise),
                            !.crashed = @ \/ thrown],
        writes |-> shows,
        label |-> IF shows THEN adv.steps[adv.stepIndex + 1].label ELSE "",
        progress |-> IF shows THEN TickProgress(adv, elapsed) ELSE Num(0, 1)]

\* history of a run's ticks, written by no line of the code: slot is the
\* step slot (at most n - 1) the latest animateProgress ran in, dense says
\* that no slot before it went without a tick; order lists the calls of
\* apiCall (line 26) and the first animateProgress (line 61) in the order
\* the run made them
Observed(run, t) ==
    LET s == Min((t - run.startTime) \div stepDuration, Len(run.steps) - 1)
    IN [run EXCEPT !.slot = s, !.dense = run.dense /\ s <= run.slot + 1]

\* ------------------------------------------------------------- actions
\* startDynamicProgress that requests the first frame where the source calls
\* animateProgress() synchronously
startDynamicProgress_NoFirstTick(steps, callTime) ==
    /\ runs' = Append(runs, [steps |-> steps, startTime |-> now * Granule,
                             currentWeight |-> 0, stepIndex |-> 0, frame |-> TRUE,
                             apiPromise |-> Pending, timer |-> NoTimer,
                             returned |-> Pending, slot |-> -1, dense |-> TRUE, crashed |-> FALSE,
                    order |-> <<"apiCall">>])
    /\ isLoading' = TRUE
    /\ progress' = Num(0, 1)
    /\ now' = now + callTime
    /\ lastCall' = [kind |-> "start", run |-> Len(runs) + 1]
    /\ UNCHANGED currentStep
    /\ UNCHANGED serverVars

\* startDynamicProgress(steps, apiCall) up to its `await`: the state resets,
\* the closure, the call of apiCall (taking callTime, returning a promise)
\* and the first, synchronous animateProgress()
startDynamicProgress(steps, callTime) ==
    /\ LET run0 == [steps |-> steps, startTime |-> now * Granule,
                    currentWeight |-> 0, stepIndex |-> 0, frame |-> FALSE,
                    apiPromise |-> Pending, timer |-> NoTimer,
                    returned |-> Pending, slot |-> -1, dense |-> TRUE, crashed |-> FALSE,
                    order |-> <<"apiCall", "animateProgress">>]
           tick == animateProgress(run0, (now + callTime) * Granule)
       IN /\ runs' = Append(runs, Observed(tick.run, (now + callTime) * Granule))
          /\ isLoading' = TRUE
          /\ progress' = IF tick.writes THEN tick.progress ELSE Num(0, 1)
          /\ currentStep' = IF tick.writes THEN tick.label ELSE currentStep
    /\ now' = now + callTime
    /\ lastCall' = [kind |-> "start", run |-> Len(runs) + 1]
    /\ UNCHANGED serverVars

\* startDynamicProgress whose apiCall() throws synchronously: line 26 throws
\* before animateProgress is defined or called; the async function's promise
\* rejects with the thrown error
startDynamicProgressThrows(steps, e) ==
    /\ runs' = Append(runs, [steps |-> steps, startTime |-> now * Granule,
                             currentWeight |-> 0, stepIndex |-> 0, frame |-> FALSE,
                             apiPromise |-> [state |-> "threw", value |-> e],
                             timer |-> NoTimer,
                             returned |-> [state |-> "rejected", value |-> e],
                             slot |-> -1, dense |-> TRUE, crashed |-> FALSE,
                    order |-> <<"apiCall">>])
    /\ isLoading' = TRUE
    /\ progress' = Num(0, 1)
    /\ lastCall' = [kind |-> "start", run |-> Len(runs) + 1]
    /\ UNCHANGED <<currentStep, now>>
    /\ UNCHANGED serverVars

\* an animation frame of run r fires: requestAnimationFrame(animateProgress)
Tick(r) ==
    /\ r \in 1..Len(runs)
    /\ runs[r].frame
    /\ LET tick == animateProgress(runs[r], now * Granule)
       IN /\ runs' = [runs EXCEPT ![r] = Observed(tick.run, now * Granule)]
          /\ progress' = IF tick.writes THEN tick.progress ELSE progress
          /\ currentStep' = IF tick.writes THEN tick.label ELSE currentStep
    /\ UNCHANGED <<isLoading, now, lastCall>>
    /\ UNCHANGED serverVars

\* Fulfil that clears isLoading at once, as the catch block does, with no timer
Fulfil_NoDelay(r, v) ==
    /\ r \in 1..Len(runs)
    /\ runs[r].apiPromise.state = "pending"
    /\ runs' = [runs EXCEPT ![r].apiPromise = [state |-> "fulfilled", value |-> v],
                            ![r].returned = [state |-> "fulfilled", value |-> v]]
    /\ progress' = Num(100, 1)
    /\ currentStep' = CompleteLabel
    /\ isLoading' = FALSE
    /\ UNCHANGED <<now, lastCall>>
    /\ UNCHANGED serverVars

\* the value the caller of startDynamicProgress gets on fulfilment
ReturnedValue(result) == [state |-> "fulfilled", value |-> result]

\* the operation of run r fulfils with v and the code after `await` runs
\* (a microtask: no frame, timer or caller code runs in between)
Fulfil(r, v) ==
    /\ r \in 1..Len(runs)
    /\ runs[r].apiPromise.state = "pending"
    /\ runs' = [runs EXCEPT ![r].apiPromise = [state |-> "fulfilled", value |-> v],
                            ![r].timer = now * Granule + CompleteDelay,
                            ![r].returned = ReturnedValue(v)]
    /\ progress' = Num(100, 1)
    /\ currentStep' = CompleteLabel
    /\ UNCHANGED <<isLoading, now, lastCall>>
    /\ UNCHANGED serverVars

\* ThrownError that throws a new error in place of the caught one
ThrownError_Wrapped(error) == [state |-> "rejected", value |-> "new Error"]

\* the error the caller of startDynamicProgress gets on rejection
ThrownError(error) == [state |-> "rejected", value |-> error]

\* Reject with a retry: the catch block calls apiCall again and awaits it
Reject_Retry(r, e) ==
    /\ r \in 1..Len(runs)
    /\ runs[r].apiPromise.state = "pending"
    /\ Len(runs[r].order) < 3
    /\ runs' = [runs EXCEPT ![r].order = Append(@, "apiCall")]
    /\ UNCHANGED <<progress, currentStep, isLoading, now, lastCall>>
    /\ UNCHANGED serverVars

\* the operation of run r rejects with e and the catch block runs
Reject(r, e) ==
    /\ r \in 1..Len(runs)
    /\ runs[r].apiPromise.state = "pending"
    /\ runs' = [runs EXCEPT ![r].apiPromise = [state |-> "rejected", value |-> e],
                            ![r].returned = ThrownError(e)]
    /\ isLoading' = FALSE
    /\ UNCHANGED <<progress, currentStep, now, lastCall>>
    /\ UNCHANGED serverVars

\* the setTimeout(..., 500) callback of run r fires
TimerFires(r) ==
    /\ r \in 1..Len(runs)
    /\ runs[r].timer # NoTimer
    /\ now * Granule >= runs[r].timer
    /\ runs' = [runs EXCEPT ![r].timer = NoTimer]
    /\ isLoading' = FALSE
    /\ UNCHANGED <<progress, currentStep, now, lastCall>>
    /\ UNCHANGED serverVars

\* resetProgress without setIsLoading(false)
resetProgress_KeepsLoading ==
    /\ progress' = Num(0, 1)
    /\ currentStep' = ""
    /\ lastCall' = [kind |-> "reset", run |-> 0]
    /\ UNCHANGED <<isLoading, now, runs>>
    /\ UNCHANGED serverVars

resetProgress ==
    /\ progress' = Num(0, 1)
    /\ currentStep' = ""
    /\ isLoading' = FALSE
    /\ lastCall' = [kind |-> "reset", run |-> 0]
    /\ UNCHANGED <<now, runs>>
    /\ UNCHANGED serverVars

\* Date.now() moves on; the code uses only differences of clock readings, so
\* the clock's origin is the first call of startDynamicProgress
ClockAdvances ==
    /\ runs # <<>>
    /\ now' = now + 1
    /\ UNCHANGED <<progress, currentStep, isLoading, runs, lastCall>>
    /\ UNCHANGED serverVars

\* one hook instance: any interleaving of up to MaxRuns starts with frames,
\* settlements, timers, resets and the clock
Next ==
    \/ \E steps \in StepLists(MaxSteps, MaxWeight) :
           Len(runs) < MaxRuns /\ startDynamicProgress(steps, 0)
    \/ \E steps \in StepLists(MaxSteps, MaxWeight), e \in Errors :
           Len(runs) < MaxRuns /\ startDynamicProgressThrows(steps, e)
    \/ \E r \in 1..Len(runs) : Tick(r)
    \/ \E r \in 1..Len(runs), v \in Values : Fulfil(r, v)
    \/ \E r \in 1..Len(runs), e \in Errors : Reject(r, e)
    \/ \E r \in 1..Len(runs) : TimerFires(r)
    \/ resetProgress
    \/ now < MaxClock /\ ClockAdvances

Spec == Init /\ [][Next]_vars

\* a single call of startDynamicProgress on a fresh hook instance
SingleRunNext ==
    \/ \E steps \in StepLists(RunMaxSteps, RunMaxWeight), callTime \in 0..RunMaxCallTime :
           runs = <<>> /\ now + callTime <= RunMaxClock
                       /\ startDynamicProgress(steps, callTime)
    \/ \E steps \in StepLists(RunMaxSteps, RunMaxWeight), e \in Errors :
           runs = <<>> /\ startDynamicProgressThrows(steps, e)
    \/ \E r \in 1..Len(runs) : Tick(r)
    \/ \E r \in 1..Len(runs), v \in Values : Fulfil(r, v)
    \/ \E r \in 1..Len(runs), e \in Errors : Reject(r, e)
    \/ \E r \in 1..Len(runs) : TimerFires(r)
    \/ resetProgress
    \/ now < RunMaxClock /\ ClockAdvances

SpecSingleRun == Init /\ [][SingleRunNext]_vars

\* a single call of startDynamicProgress with a step list that may be empty
\* or carry weights of 0
DegenerateNext ==
    \/ \E steps \in DegenerateStepLists(DegMaxSteps, DegMaxWeight) :
           runs = <<>> /\ startDynamicProgress(steps, 0)
    \/ \E r \in 1..Len(runs) : Tick(r)
    \/ \E r \in 1..Len(runs), v \in Values : Fulfil(r, v)
    \/ \E r \in 1..Len(runs), e \in Errors : Reject(r, e)
    \/ \E r \in 1..Len(runs) : TimerFires(r)
    \/ resetProgress
    \/ now < DegMaxClock /\ ClockAdvances

SpecDegenerate == Init /\ [][DegenerateNext]_vars

\* ----------------------------------------- fixed-duration useProgressLoader
\* The earlier variant of the hook: startProgress(steps, onComplete) walks
\* the steps, each with its own duration, animating each with animateStep
\* and awaiting a timeout per step. Its React state is the same three
\* values; a run record holds the closure of one startProgress call.
FixedCompleteDelay == 500

\* step lists of 1..maxSteps steps with durations of 1..maxDuration Granules
FixedStepLists(maxSteps, maxDuration) ==
    {[i \in 1..Len(ds) |-> [label |-> Labels[i], duration |-> ds[i] * Granule]] :
        ds \in UNION {[1..k -> 1..maxDuration] : k \in 1..maxSteps}}

RECURSIVE SumDurations(_, _)
SumDurations(steps, k) ==
    IF k = 0 THEN 0 ELSE SumDurations(steps, k - 1) + steps[k].duration

\* steps.reduce((sum, step) => sum + step.duration, 0)
totalDuration(steps) == SumDurations(steps, Len(steps))

\* x + y on numbers
AddNum(x, y) == Num(x.n * y.d + y.n * x.d, x.d * y.d)

\* (step.duration / totalDuration) * 100
stepProgress(steps, j) == Num(steps[j].duration * 100, totalDuration(steps))

\* animateStep with the Math.min(..., 100) clamps dropped
animateStep_Unclamped(run, j, t) ==
    LET stepElapsed == t - run.stepStart[j]
    IN IF stepElapsed >= run.steps[j].duration
       THEN LET sum == AddNum(run.currentProgress, stepProgress(run.steps, j))
            IN [run |-> [run EXCEPT !.currentProgress = sum, !.frames = @ \ {j}],
                progress |-> sum]
       ELSE [run |-> [run EXCEPT !.frames = @ \cup {j}],
             progress |-> AddNum(run.currentProgress,
                                 Num(stepElapsed * 100, totalDuration(run.steps)))]

\* one execution of animateStep of step j at clock t (ms): the closure after
\* it and the value handed to setProgress
animateStep(run, j, t) ==
    LET stepElapsed == t - run.stepStart[j]
    IN IF stepElapsed >= run.steps[j].duration
       THEN LET sum == AddNum(run.currentProgress, stepProgress(run.steps, j))
            IN [run |-> [run EXCEPT !.currentProgress = sum, !.frames = @ \ {j}],
                progress |-> MathMin(sum, Num(100, 1))]
       ELSE [run |-> [run EXCEPT !.frames = @ \cup {j}],
             \* stepElapsed / duration * stepProgress
             progress |-> MathMin(AddNum(run.currentProgress,
                                         Num(stepElapsed * 100, totalDuration(run.steps))),
                                  Num(100, 1))]

\* EnterStep with setTimeout(..., 0) after the loop
EnterStep_NoDelay(run, t) ==
    IF run.k <= Len(run.steps)
    THEN LET tick == animateStep([run EXCEPT !.stepStart = Append(@, t)], run.k, t)
         IN [run |-> [tick.run EXCEPT !.stepTimer = t + run.steps[run.k].duration],
             setsLabel |-> TRUE,
             label |-> run.steps[run.k].label,
             progress |-> tick.progress]
    ELSE [run |-> [run EXCEPT !.stepTimer = NoTimer, !.timer = t],
          setsLabel |-> FALSE,
          label |-> "",
          progress |-> Num(100, 1)]

\* the for loop from the head of iteration run.k (1-based) up to its await,
\* or, past the last step, the code after the loop
EnterStep(run, t) ==
    IF run.k <= Len(run.steps)
    THEN LET tick == animateStep([run EXCEPT !.stepStart = Append(@, t)], run.k, t)
         IN [run |-> [tick.run EXCEPT !.stepTimer = t + run.steps[run.k].duration],
             setsLabel |-> TRUE,
             label |-> run.steps[run.k].label,
             progress |-> tick.progress]
    ELSE [run |-> [run EXCEPT !.stepTimer = NoTimer,
                              !.timer = t + FixedCompleteDelay],
          setsLabel |-> FALSE,
          label |-> "",
          progress |-> Num(100, 1)]

\* startProgress(steps, onComplete) up to its first await
startProgress(steps) ==
    /\ LET run0 == [steps |-> steps, startedAt |-> now * Granule, k |-> 1,
                    currentProgress |-> Num(0, 1), stepStart |-> <<>>,
                    frames |-> {}, stepTimer |-> NoTimer, timer |-> NoTimer,
                    completed |-> 0]
           enter == EnterStep(run0, now * Granule)
       IN /\ runs' = Append(runs, enter.run)
          /\ progress' = enter.progress
          /\ currentStep' = IF enter.setsLabel THEN enter.label ELSE currentStep
    /\ isLoading' = TRUE
    /\ lastCall' = [kind |-> "start", run |-> Len(runs) + 1]
    /\ UNCHANGED now
    /\ UNCHANGED serverVars

\* the animation frame requested by animateStep of step j fires
StepFrame(r, j) ==
    /\ r \in 1..Len(runs)
    /\ j \in runs[r].frames
    /\ LET tick == animateStep(runs[r], j, now * Granule)
       IN /\ runs' = [runs EXCEPT ![r] = tick.run]
          /\ progress' = tick.progress
    /\ UNCHANGED <<currentStep, isLoading, now, lastCall>>
    /\ UNCHANGED serverVars

\* the timeout awaited for step k fires: `currentProgress += stepProgress`
\* and the loop goes on
StepTimeout(r) ==
    /\ r \in 1..Len(runs)
    /\ runs[r].stepTimer # NoTimer
    /\ now * Granule >= runs[r].stepTimer
    /\ LET run == runs[r]
           after == [run EXCEPT
                        !.currentProgress = AddNum(@, stepProgress(run.steps, run.k)),
                        !.k = @ + 1]
           enter == EnterStep(after, now * Granule)
       IN /\ runs' = [runs EXCEPT ![r] = enter.run]
          /\ progress' = enter.progress
          /\ currentStep' = IF enter.setsLabel THEN enter.label ELSE currentStep
    /\ UNCHANGED <<isLoading, now, lastCall>>
    /\ UNCHANGED serverVars

\* CompletionTimeout that calls onComplete and leaves isLoading as it is
CompletionTimeout_KeepsLoading(r) ==
    /\ r \in 1..Len(runs)
    /\ runs[r].timer # NoTimer
    /\ now * Granule >= runs[r].timer
    /\ runs' = [runs EXCEPT ![r].timer = NoTimer, ![r].completed = @ + 1]
    /\ UNCHANGED <<progress, currentStep, isLoading, now, lastCall>>
    /\ UNCHANGED serverVars

\* the setTimeout(..., 500) callback: setIsLoading(false); onComplete?.()
CompletionTimeout(r) ==
    /\ r \in 1..Len(runs)
    /\ runs[r].timer # NoTimer
    /\ now * Granule >= runs[r].timer
    /\ runs' = [runs EXCEPT ![r].timer = NoTimer, ![r].completed = @ + 1]
    /\ isLoading' = FALSE
    /\ UNCHANGED <<progress, currentStep, now, lastCall>>
    /\ UNCHANGED serverVars

\* a single call of startProgress on a fresh hook instance
FixedNext ==
    \/ \E steps \in FixedStepLists(FixedMaxSteps, FixedMaxDuration) :
           runs = <<>> /\ startProgress(steps)
    \/ \E r \in 1..Len(runs) : \E j \in runs[r].frames : StepFrame(r, j)
    \/ \E r \in 1..Len(runs) : StepTimeout(r)
    \/ \E r \in 1..Len(runs) : CompletionTimeout(r)
    \/ resetProgress
    \/ now < FixedMaxClock /\ ClockAdvances

SpecFixed == Init /\ [][FixedNext]_vars

\* ------------------------------------------------------ either variant
\* A hook instance is of one variant or the other; its runs then all have
\* the closure of that variant.
DynamicHook == \A r \in 1..Len(runs) : "apiPromise" \in DOMAIN runs[r]
FixedHook == \A r \in 1..Len(runs) : "currentProgress" \in DOMAIN runs[r]

\* one instance of the fixed-duration hook: up to MaxRuns calls of
\* startProgress in any interleaving with their frames and timeouts
FixedOverlapNext ==
    \/ \E steps \in FixedStepLists(MaxSteps, FixedMaxDuration) :
           Len(runs) < MaxRuns /\ startProgress(steps)
    \/ \E r \in 1..Len(runs) : \E j \in runs[r].frames : StepFrame(r, j)
    \/ \E r \in 1..Len(runs) : StepTimeout(r)
    \/ \E r \in 1..Len(runs) : CompletionTimeout(r)
    \/ resetProgress
    \/ now < MaxClock /\ ClockAdvances

\* one hook instance of either variant
AnyHookNext ==
    \/ DynamicHook /\ Next
    \/ FixedHook /\ FixedOverlapNext

SpecAnyHook == Init /\ [][AnyHookNext]_vars

\* ------------------------------------------------- steps-only variant
\* The variant of the hook with start(steps) and completeProgress() is not
\* among the sources; these definitions follow its description in the
\* specification (section 4.1): a tick loop on a fixed interval, progress
\* capped at 90, completion only on the caller's completeProgress().
\* resetProgress is the one of the sources.
StepsOnlyCap == 90
TickInterval == 2500
StepsOnlyCompleteLabel == "complete"

\* the percentage of algorithm steps 2 to 5 at `elapsed` ms after the start
StepsOnlyProgress(steps, elapsed) ==
    LET target == targetStep(steps, elapsed)
        within == Min(elapsed - target * stepDuration, stepDuration)
    IN MathMin(Num((SumWeights(steps, target) * stepDuration
                        + within * steps[target + 1].weight) * StepsOnlyCap,
                   totalWeight(steps) * stepDuration),
               Num(StepsOnlyCap, 1))

\* start(steps): resets the state, isRunning true, the first step's label,
\* and the interval begins
start(steps) ==
    /\ progress' = Num(0, 1)
    /\ currentStep' = steps[1].label
    /\ isLoading' = TRUE
    /\ runs' = Append(runs, [steps |-> steps, startTime |-> now * Granule,
                             interval |-> now * Granule + TickInterval,
                             timers |-> {}, completes |-> 0])
    /\ lastCall' = [kind |-> "start", run |-> Len(runs) + 1]
    /\ UNCHANGED now
    /\ UNCHANGED serverVars

\* the interval of run r fires: one tick of the loop
IntervalTick(r) ==
    /\ r \in 1..Len(runs)
    /\ runs[r].interval # NoTimer
    /\ now * Granule >= runs[r].interval
    /\ LET run == runs[r]
           elapsed == now * Granule - run.startTime
       IN /\ progress' = StepsOnlyProgress(run.steps, elapsed)
          /\ currentStep' = run.steps[targetStep(run.steps, elapsed) + 1].label
          /\ runs' = [runs EXCEPT ![r].interval = @ + TickInterval]
    /\ UNCHANGED <<isLoading, now, lastCall>>
    /\ UNCHANGED serverVars

\* the caller stops the loop with the handle start returned
stopLoop(r) ==
    /\ r \in 1..Len(runs)
    /\ runs[r].interval # NoTimer
    /\ runs' = [runs EXCEPT ![r].interval = NoTimer]
    /\ UNCHANGED <<progress, currentStep, isLoading, now, lastCall>>
    /\ UNCHANGED serverVars

\* completeProgress that ends the run at once
completeProgress_Instant ==
    /\ runs # <<>>
    /\ progress' = Num(100, 1)
    /\ currentStep' = StepsOnlyCompleteLabel
    /\ isLoading' = FALSE
    /\ runs' = [runs EXCEPT ![Len(runs)].completes = @ + 1]
    /\ lastCall' = [kind |-> "complete", run |-> Len(runs)]
    /\ UNCHANGED now
    /\ UNCHANGED serverVars

\* completeProgress(): progress 100, the complete label, and isRunning set
\* false after the fixed delay
completeProgress ==
    /\ runs # <<>>
    /\ progress' = Num(100, 1)
    /\ currentStep' = StepsOnlyCompleteLabel
    /\ runs' = [runs EXCEPT ![Len(runs)].timers = @ \cup {now * Granule + CompleteDelay},
                            ![Len(runs)].completes = @ + 1]
    /\ lastCall' = [kind |-> "complete", run |-> Len(runs)]
    /\ UNCHANGED <<isLoading, now>>
    /\ UNCHANGED serverVars

\* a timer scheduled by completeProgress fires
CompleteTimerFires(r, due) ==
    /\ r \in 1..Len(runs)
    /\ due \in runs[r].timers
    /\ now * Granule >= due
    /\ isLoading' = FALSE
    /\ runs' = [runs EXCEPT ![r].timers = @ \ {due}]
    /\ UNCHANGED <<progress, currentStep, now, lastCall>>
    /\ UNCHANGED serverVars

\* a single start(steps) on a fresh hook instance, with its ticks, the
\* caller's completeProgress, stopLoop and resetProgress, and the clock
StepsOnlyNext ==
    \/ \E steps \in StepLists(OnlyMaxSteps, OnlyMaxWeight) :
           runs = <<>> /\ start(steps)
    \/ \E r \in 1..Len(runs) : IntervalTick(r)
    \/ \E r \in 1..Len(runs) : stopLoop(r)
    \/ runs # <<>> /\ runs[Len(runs)].completes < OnlyMaxCompletes /\ completeProgress
    \/ \E r \in 1..Len(runs) : \E due \in runs[r].timers : CompleteTimerFires(r, due)
    \/ resetProgress
    \/ now < OnlyMaxClock /\ ClockAdvances

SpecStepsOnly == Init /\ [][StepsOnlyNext]_vars

\* --------------------------------------------------- server routes
\* The handlers of registerRoutes (part_005) that read or write the users
\* map. A handler runs to its first await in one step and from the await to
\* its response in another; other handlers run in between.
Emails == {"a@x.io", "b@x.io"}
\* passwords users sign up with, and passwords tried at login
Passwords == {"pw1"}
Attempts == {"pw1", "guess"}
\* first names given at signup or by Google, and set by a profile update
GivenNames == {"Ann"}
Names == {"Bob"}
PriceIds == {"starter", "professional"}

\* bcrypt.hash(password, 12)
Hash(pw) == CASE pw = "pw1" -> "$2a$12$Q1" [] pw = "guess" -> "$2a$12$Q2"

\* bcrypt.compare(password, hash)
Compare(pw, hash) == hash = Hash(pw)

\* Array.from(users.values()).find(u => u.email === email): the first entry
\* in insertion order, NoUser for undefined
FindByEmail(email) ==
    LET found == {i \in DOMAIN users : users[i].email = email}
    IN IF found = {} THEN NoUser
       ELSE users[CHOOSE i \in found : \A j \in found : i <= j]

\* const { password, ...userWithoutPassword } = user
WithoutPassword(user) == [f \in DOMAIN user \ {"password"} |-> user[f]]

Message(text) == [message |-> text]

\* entries of the users map, and signups that will add one
Registered == Len(users) + Cardinality({c \in Clients : inflight[c].route = "signup"})

\* POST /api/auth/signup up to `await bcrypt.hash`
Signup(c, email, pw, name) ==
    /\ inflight[c] = Idle
    /\ IF FindByEmail(email) # NoUser
       THEN /\ lastResponse' = [route |-> "signup", status |-> 400,
                                body |-> Message("User already exists with this email")]
            /\ UNCHANGED inflight
       ELSE /\ inflight' = [inflight EXCEPT ![c] =
                               [Idle EXCEPT !.route = "signup", !.email = email,
                                            !.password = pw, !.firstName = name]]
            /\ UNCHANGED lastResponse
    /\ UNCHANGED <<users, sessions>>
    /\ UNCHANGED hookVars

\* POST /api/auth/signup from the hash to the response
SignupHashed(c) ==
    /\ inflight[c].route = "signup"
    /\ LET h == inflight[c]
           user == [NoUser EXCEPT !.id = Len(users) + 1, !.email = h.email,
                                  !.password = Hash(h.password),
                                  !.firstName = h.firstName]
       IN /\ users' = Append(users, user)
          /\ lastResponse' = [route |-> "signup", status |-> 201,
                              body |-> [message |-> "User created successfully",
                                        user |-> WithoutPassword(user),
                                        token |-> user.id]]
    /\ inflight' = [inflight EXCEPT ![c] = Idle]
    /\ UNCHANGED sessions
    /\ UNCHANGED hookVars

\* POST /api/auth/login up to `await bcrypt.compare`
Login(c, email, pw) ==
    /\ inflight[c] = Idle
    /\ IF FindByEmail(email) = NoUser
       THEN /\ lastResponse' = [route |-> "login", status |-> 400,
                                body |-> Message("Invalid email or password")]
            /\ UNCHANGED inflight
       ELSE /\ inflight' = [inflight EXCEPT ![c] =
                               [Idle EXCEPT !.route = "login", !.password = pw,
                                            !.user = FindByEmail(email)]]
            /\ UNCHANGED lastResponse
    /\ UNCHANGED <<users, sessions>>
    /\ UNCHANGED hookVars

\* POST /api/auth/login from the comparison to the response
LoginCompared(c) ==
    /\ inflight[c].route = "login"
    /\ LET h == inflight[c]
       IN IF Compare(h.password, h.user.password)
          THEN /\ sessions' = [sessions EXCEPT ![c] = [userId |-> h.user.id,
                                                       user |-> h.user]]
               /\ lastResponse' = [route |-> "login", status |-> 200,
                                   body |-> [message |-> "Login successful",
                                             user |-> WithoutPassword(h.user)]]
          ELSE /\ lastResponse' = [route |-> "login", status |-> 400,
                                   body |-> Message("Invalid email or password")]
               /\ UNCHANGED sessions
    /\ inflight' = [inflight EXCEPT ![c] = Idle]
    /\ UNCHANGED users
    /\ UNCHANGED hookVars

\* GET /api/auth/me with the token of user id
GetAuthMe(id) ==
    /\ id \in DOMAIN users
    /\ users[id].password # ""
    /\ lastResponse' = [route |-> "me", status |-> 200,
                        body |-> [user |-> WithoutPassword(users[id])]]
    /\ UNCHANGED <<users, sessions, inflight>>
    /\ UNCHANGED hookVars

\* GET /api/auth/google/callback from Google's answer about the user to the
\* redirect: find or create the user, regenerate and fill the session
GoogleCallback(c, email, name) ==
    /\ LET found == FindByEmail(email)
           user == IF found # NoUser THEN found
                   ELSE [NoUser EXCEPT !.id = Len(users) + 1, !.email = email,
                                       !.firstName = name]
       IN /\ users' = IF found # NoUser THEN users ELSE Append(users, user)
          /\ sessions' = [sessions EXCEPT ![c] = [userId |-> user.id, user |-> user]]
    /\ lastResponse' = [route |-> "google/callback", status |-> 302,
                        body |-> Message("redirect /")]
    /\ UNCHANGED inflight
    /\ UNCHANGED hookVars

\* GET /api/user
GetApiUser(c) ==
    /\ lastResponse' =
          IF sessions[c].userId \in DOMAIN users
          THEN [route |-> "user", status |-> 200,
                body |-> WithoutPassword(users[sessions[c].userId])]
          ELSE [route |-> "user", status |-> 401, body |-> Message("Not authenticated")]
    /\ UNCHANGED <<users, sessions, inflight>>
    /\ UNCHANGED hookVars

\* router.get("/user"): res.json(req.session.user)
RouterGetUser(c) ==
    /\ lastResponse' =
          IF sessions[c].user = NoUser
          THEN [route |-> "router/user", status |-> 401,
                body |-> Message("Not authenticated")]
          ELSE [route |-> "router/user", status |-> 200, body |-> sessions[c].user]
    /\ UNCHANGED <<users, sessions, inflight>>
    /\ UNCHANGED hookVars

\* PUT /api/user/profile
PutProfile(c, name) ==
    /\ IF sessions[c].userId \notin DOMAIN users
       THEN /\ lastResponse' = [route |-> "profile", status |-> 401,
                                body |-> Message("Not authenticated")]
            /\ UNCHANGED <<users, sessions>>
       ELSE LET id == sessions[c].userId
                updatedUser == [users[id] EXCEPT !.firstName = name]
            IN /\ users' = [users EXCEPT ![id] = updatedUser]
               /\ sessions' = [sessions EXCEPT ![c].user = updatedUser]
               /\ lastResponse' = [route |-> "profile", status |-> 200,
                                   body |-> WithoutPassword(updatedUser)]
    /\ UNCHANGED inflight
    /\ UNCHANGED hookVars

\* POST /api/create-setup-intent up to `await stripe.customers.create`, or,
\* for a user who has a customer id, to the response
CreateSetupIntent(c) ==
    /\ inflight[c] = Idle
    /\ IF sessions[c].userId \notin DOMAIN users
       THEN /\ lastResponse' = [route |-> "setup-intent", status |-> 401,
                                body |-> Message("Not authenticated")]
            /\ UNCHANGED inflight
       ELSE IF users[sessions[c].userId].stripeCustomerId # ""
       THEN /\ lastResponse' = [route |-> "setup-intent", status |-> 200,
                                body |-> [clientSecret |-> "seti_secret"]]
            /\ UNCHANGED inflight
       ELSE /\ inflight' = [inflight EXCEPT ![c] =
                               [Idle EXCEPT !.route = "setup-intent",
                                            !.user = users[sessions[c].userId]]]
            /\ UNCHANGED lastResponse
    /\ UNCHANGED <<users, sessions>>
    /\ UNCHANGED hookVars

\* POST /api/create-setup-intent from the customer Stripe created to the
\* response: `{ ...user, stripeCustomerId }` with the user read before the await
SetupCustomerCreated(c) ==
    /\ inflight[c].route = "setup-intent"
    /\ LET user == inflight[c].user
           updatedUser == [user EXCEPT !.stripeCustomerId = "cus_1"]
       IN /\ users' = [users EXCEPT ![user.id] = updatedUser]
          /\ sessions' = [sessions EXCEPT ![c] = [userId |-> user.id,
                                                  user |-> updatedUser]]
    /\ lastResponse' = [route |-> "setup-intent", status |-> 200,
                        body |-> [clientSecret |-> "seti_secret"]]
    /\ inflight' = [inflight EXCEPT ![c] = Idle]
    /\ UNCHANGED hookVars

\* POST /api/create-subscription up to `await stripe.products.create`, or,
\* for the free starter plan or a user without customer id, to the response
CreateSubscription(c, priceId) ==
    /\ inflight[c] = Idle
    /\ IF sessions[c].userId \notin DOMAIN users
       THEN /\ lastResponse' = [route |-> "subscription", status |-> 401,
                                body |-> Message("Not authenticated")]
            /\ UNCHANGED <<users, sessions, inflight>>
       ELSE LET user == users[sessions[c].userId]
            IN IF user.stripeCustomerId = ""
               THEN /\ lastResponse' = [route |-> "subscription", status |-> 400,
                                        body |-> Message("Customer not found")]
                    /\ UNCHANGED <<users, sessions, inflight>>
               ELSE IF priceId = "starter"
               THEN LET updatedUser == [user EXCEPT !.subscriptionPlan = "starter"]
                    IN /\ users' = [users EXCEPT ![user.id] = updatedUser]
                       /\ sessions' = [sessions EXCEPT ![c].user = updatedUser]
                       /\ lastResponse' = [route |-> "subscription", status |-> 200,
                                           body |-> [subscriptionId |-> "free_starter"]]
                       /\ UNCHANGED inflight
               ELSE /\ inflight' = [inflight EXCEPT ![c] =
                                       [Idle EXCEPT !.route = "subscription",
                                                    !.user = user, !.plan = priceId]]
                    /\ UNCHANGED <<users, sessions, lastResponse>>
    /\ UNCHANGED hookVars

\* POST /api/create-subscription from the subscription Stripe created to the
\* response: `{ ...user, stripeSubscriptionId, ... }` with the user read
\* before the awaits
SubscriptionCreated(c) ==
    /\ inflight[c].route = "subscription"
    /\ LET user == inflight[c].user
           updatedUser == [user EXCEPT !.subscriptionPlan = inflight[c].plan]
       IN /\ users' = [users EXCEPT ![user.id] = updatedUser]
          /\ sessions' = [sessions EXCEPT ![c] = [userId |-> user.id,
                                                  user |-> updatedUser]]
    /\ lastResponse' = [route |-> "subscription", status |-> 200,
                        body |-> [subscriptionId |-> "sub_1"]]
    /\ inflight' = [inflight EXCEPT ![c] = Idle]
    /\ UNCHANGED hookVars

\* a Stripe call of a waiting handler fails: the catch block answers 500
StripeFails(c) ==
    /\ inflight[c].route \in {"setup-intent", "subscription"}
    /\ lastResponse' = [route |-> inflight[c].route, status |-> 500,
                        body |-> Message("Error")]
    /\ inflight' = [inflight EXCEPT ![c] = Idle]
    /\ UNCHANGED <<users, sessions>>
    /\ UNCHANGED hookVars

\* the accounts of the server: signups, logins and Google logins of the
\* clients in any interleaving, a handler at an await letting the others
\* run, with the routes that return the user and the profile update
AccountsNext ==
    \/ \E c \in Clients, email \in Emails, pw \in Passwords, name \in GivenNames :
           Registered < SrvMaxUsers /\ Signup(c, email, pw, name)
    \/ \E c \in Clients : SignupHashed(c)
    \/ \E c \in Clients, email \in Emails, pw \in Attempts : Login(c, email, pw)
    \/ \E c \in Clients : LoginCompared(c)
    \/ \E id \in DOMAIN users : GetAuthMe(id)
    \/ \E c \in Clients, email \in Emails, name \in GivenNames :
           Registered < SrvMaxUsers /\ GoogleCallback(c, email, name)
    \/ \E c \in Clients : GetApiUser(c)
    \/ \E c \in Clients : RouterGetUser(c)
    \/ \E c \in Clients, name \in Names : PutProfile(c, name)

SpecAccounts == Init /\ [][AccountsNext]_vars

\* the record of one user who logs in with Google on either client: profile
\* updates and the Stripe handlers in any interleaving
BillingNext ==
    \/ \E c \in Clients, name \in GivenNames :
           Registered < SrvMaxUsers /\ GoogleCallback(c, "a@x.io", name)
    \/ \E c \in Clients, name \in Names : PutProfile(c, name)
    \/ \E c \in Clients : CreateSetupIntent(c)
    \/ \E c \in Clients : SetupCustomerCreated(c)
    \/ \E c \in Clients, priceId \in PriceIds : CreateSubscription(c, priceId)
    \/ \E c \in Clients : SubscriptionCreated(c)
    \/ \E c \in Clients : StripeFails(c)
    \/ \E c \in Clients : GetApiUser(c)

SpecBilling == Init /\ [][BillingNext]_vars

\* ---------------------------------------------------------------- claims
PendingRun(r) == r \in 1..Len(runs) /\ runs[r].apiPromise.state = "pending"
FulfilledRun(r) == r \in 1..Len(runs) /\ runs[r].apiPromise.state = "fulfilled"
RejectedRun(r) == r \in 1..Len(runs) /\ runs[r].apiPromise.state = "rejected"
\* run r is the latest call made on the hook: no reset or other start since
Current(r) == lastCall = [kind |-> "start", run |-> r]

\* C1: while the operation of a run is pending, progress is at most 98.
C1_CappedBeforeSettlement ==
    \A r \in 1..Len(runs) :
        PendingRun(r) => Leq(progress, Num(ProgressCap, 1))

\* a pending run whose loop has reached the cap
C1_Witness ==
    \E r \in 1..Len(runs) :
        /\ PendingRun(r)
        /\ Current(r)
        /\ progress = Num(ProgressCap, 1)
        /\ now * Granule - runs[r].startTime > Len(runs[r].steps) * stepDuration

\* C2: in a single run that is pending and not reset, no tick writes a
\* progress below the one shown before it.
C2_TicksNonDecreasing ==
    [][\A r \in 1..Len(runs) :
          (Tick(r) /\ PendingRun(r) /\ Current(r)) => Leq(progress, progress')]_vars

\* a tick has skipped step slot 1: the index went from 0 to 2 in one tick
C2_Witness ==
    /\ Len(runs) = 1
    /\ PendingRun(1)
    /\ Current(1)
    /\ runs[1].stepIndex = 2
    /\ runs[1].currentWeight = runs[1].steps[1].weight
    /\ Leq(Num(1, 1), progress)

\* C3: the step in which the operation fulfils sets progress to 100 and the
\* complete label, returns the fulfilled value and leaves isLoading true;
\* afterwards isLoading falls, short of a resetProgress call, only in the
\* step of the timer, no sooner than 500 ms after the settlement.
C3_FulfilThenDelay ==
    [][\A r \in 1..Len(runs) :
          /\ (PendingRun(r) /\ runs'[r].apiPromise.state = "fulfilled" /\ Current(r)) =>
                /\ progress' = Num(100, 1)
                /\ currentStep' = CompleteLabel
                /\ isLoading /\ isLoading'
                /\ runs'[r].returned = [state |-> "fulfilled",
                                        value |-> runs'[r].apiPromise.value]
                /\ runs'[r].timer = now * Granule + CompleteDelay
          /\ (FulfilledRun(r) /\ isLoading /\ ~isLoading' /\ lastCall' = lastCall) =>
                /\ runs[r].timer # NoTimer
                /\ runs'[r].timer = NoTimer
                /\ now * Granule >= runs[r].timer]_vars

\* the timer of a fulfilled run has fired: 100 %, complete label, not loading
C3_Witness ==
    /\ FulfilledRun(1)
    /\ Current(1)
    /\ runs[1].timer = NoTimer
    /\ runs[1].returned.state = "fulfilled"
    /\ progress = Num(100, 1)
    /\ currentStep = CompleteLabel
    /\ ~isLoading

\* C4: once a run has fulfilled and shows 100 with the complete label, no
\* later frame or timer of that run changes progress or the label, as long
\* as neither resetProgress nor a new start is called.
C4_StaysComplete ==
    [][\A r \in 1..Len(runs) :
          (/\ FulfilledRun(r) /\ Current(r)
           /\ progress = Num(100, 1) /\ currentStep = CompleteLabel
           /\ (Tick(r) \/ TimerFires(r)))
          => (progress' = Num(100, 1) /\ currentStep' = CompleteLabel)]_vars

\* C5: the step in which the operation rejects clears isLoading, schedules
\* no timer, hands the caller the same error and leaves progress and the
\* label as they were.
C5_RejectImmediate ==
    [][\A r \in 1..Len(runs) :
          (PendingRun(r) /\ runs'[r].apiPromise.state = "rejected") =>
              /\ ~isLoading'
              /\ runs'[r].timer = NoTimer
              /\ runs'[r].returned = [state |-> "rejected",
                                      value |-> runs'[r].apiPromise.value]
              /\ progress' = progress
              /\ currentStep' = currentStep]_vars

\* a run rejected part-way through: not loading, progress neither 0 nor 100
C5_Witness ==
    \E r \in 1..Len(runs) :
        /\ RejectedRun(r)
        /\ Current(r)
        /\ runs[r].returned = [state |-> "rejected", value |-> "e2"]
        /\ ~isLoading
        /\ ~Leq(progress, Num(0, 1))
        /\ ~Leq(Num(ProgressCap, 1), progress)
        /\ currentStep # CompleteLabel

\* C6: after a run's operation has rejected, no later frame of that run
\* changes progress or the label, as long as neither resetProgress nor a
\* new start is called.
C6_FrozenAfterReject ==
    [][\A r \in 1..Len(runs) :
          (RejectedRun(r) /\ Current(r) /\ Tick(r))
          => (progress' = progress /\ currentStep' = currentStep)]_vars

\* C7: every resetProgress step ends with progress 0, an empty label and
\* isLoading false.
C7_ResetPostcondition ==
    [][resetProgress => (progress' = Num(0, 1) /\ currentStep' = "" /\ ~isLoading')]_vars

\* resetProgress called during the completion delay of a fulfilled run
C7_Witness ==
    /\ lastCall.kind = "reset"
    /\ \E r \in 1..Len(runs) : FulfilledRun(r) /\ runs[r].timer # NoTimer
    /\ progress = Num(0, 1)
    /\ currentStep = ""
    /\ ~isLoading

\* C8: from a resetProgress call until the next start, progress is 0, the
\* label is empty and isLoading is false.
C8_ResetCancels ==
    lastCall.kind = "reset" => (progress = Num(0, 1) /\ currentStep = "" /\ ~isLoading)

\* C9: at most one animation loop is scheduled at any time.
C9_OneLoop ==
    Cardinality({r \in 1..Len(runs) : runs[r].frame}) <= 1

\* C10: a frame that runs after the operation has settled requests no
\* further frame.
C10_LoopStops ==
    [][\A r \in 1..Len(runs) :
          ((FulfilledRun(r) \/ RejectedRun(r)) /\ Tick(r)) => ~runs'[r].frame]_vars

\* no resetProgress call since run r was started
NotResetSince(r) == lastCall.kind = "start" /\ lastCall.run >= r

\* time since run r read startTime, in ms
Elapsed(r) == now * Granule - runs[r].startTime

\* the step whose call of startDynamicProgress returned a promise
StartStep == Len(runs') = Len(runs) + 1 /\ runs'[Len(runs')].apiPromise.state = "pending"

\* C11: while the operation of a run is pending and resetProgress has not
\* been called since its start, isLoading is true.
C11_LoadingWhileRunning ==
    \A r \in 1..Len(runs) : (PendingRun(r) /\ NotResetSince(r)) => isLoading

\* C12: a tick of a pending, not reset run at or after the end of the last
\* step slot shows 98 and the last step's label, with isLoading true; every
\* later tick writes the same, so this is where the run stays.
C12_ReachesCap ==
    [][\A r \in 1..Len(runs) :
          (/\ Tick(r) /\ PendingRun(r) /\ Current(r)
           /\ Elapsed(r) >= Len(runs[r].steps) * stepDuration)
          => /\ progress' = Num(ProgressCap, 1)
             /\ currentStep' = runs[r].steps[Len(runs[r].steps)].label
             /\ isLoading']_vars

\* C18: the accumulated weight of a run is the sum of the weights of the
\* steps below its active step index.
C18_AccumulatedWeight ==
    \A r \in 1..Len(runs) :
        runs[r].currentWeight = SumWeights(runs[r].steps, runs[r].stepIndex)

\* C19: every execution of animateProgress, the synchronous first one and
\* every frame, leaves the active index at min(floor(elapsed / 2000), n - 1),
\* shows the label of that step and never lowers the index.
C19_ActiveStep ==
    [][\A r \in 1..Len(runs') :
          ((r \in 1..Len(runs) /\ Tick(r)) \/ (StartStep /\ r = Len(runs'))) =>
              LET n == Len(runs'[r].steps)
                  e == now' * Granule - runs'[r].startTime
                  k == IF e \div stepDuration < n - 1 THEN e \div stepDuration ELSE n - 1
              IN /\ runs'[r].stepIndex = k
                 /\ currentStep' = runs'[r].steps[k + 1].label
                 /\ r \in 1..Len(runs) => runs'[r].stepIndex >= runs[r].stepIndex]_vars

\* a tick past the last slot of a 3-step list, reached by a tick that jumped
\* from step 0: the index is clamped to 2 and the third label shows
C19_Witness ==
    /\ Len(runs) = 1
    /\ Len(runs[1].steps) = 3
    /\ Elapsed(1) >= 3 * stepDuration
    /\ runs[1].stepIndex = 2
    /\ runs[1].currentWeight = runs[1].steps[1].weight
    /\ currentStep = runs[1].steps[3].label

C20_SlotBoundary ==
    [][\A r \in 1..Len(runs') :
          ((r \in 1..Len(runs) /\ Tick(r)) \/ (StartStep /\ r = Len(runs'))) =>
              \A k \in 1..(Len(runs'[r].steps) - 1) :
                  (/\ now' * Granule - runs'[r].startTime = k * stepDuration
                   /\ runs'[r].dense)
                  => /\ currentStep' = runs'[r].steps[k + 1].label
                     /\ progress' = Num(SumWeights(runs'[r].steps, k) * ProgressCap,
                                        totalWeight(runs'[r].steps))]_vars

\* weights 1, 2, 1 with a tick in slot 0 and one at 2000 ms: the second
\* label and 1/4 * 98
C20_Witness ==
    /\ Len(runs) = 1
    /\ [i \in 1..Len(runs[1].steps) |-> runs[1].steps[i].weight] = <<1, 2, 1>>
    /\ Elapsed(1) = stepDuration
    /\ runs[1].slot = 1
    /\ runs[1].dense
    /\ currentStep = "Analyzing"
    /\ progress = Num(ProgressCap, 4)

\* an execution of animateProgress for run r: a frame, or the first one
AnimateProgressStep(r) == (r \in 1..Len(runs) /\ Tick(r)) \/ (StartStep /\ r = Len(runs'))

\* C14: for a non-empty list whose weights sum to 0 every animateProgress
\* sets progress to 98, a number within [0, 100], and throws nothing.
C14_ZeroWeightCap ==
    [][\A r \in 1..Len(runs') :
          (/\ AnimateProgressStep(r)
           /\ Len(runs'[r].steps) > 0
           /\ totalWeight(runs'[r].steps) = 0)
          => /\ ~runs'[r].crashed
             /\ ~IsNaN(progress')
             /\ progress' = Num(ProgressCap, 1)]_vars

\* C15: for an empty list no animateProgress throws or touches progress and
\* the label (the call itself sets progress 0 and isLoading true), the loop
\* goes on, and fulfilment and rejection are handled as for any list.
C15_EmptyList ==
    [][\A r \in 1..Len(runs') :
          Len(runs'[r].steps) = 0 =>
              /\ ~runs'[r].crashed
              /\ (r \in 1..Len(runs) /\ Tick(r)) =>
                    /\ progress' = progress
                    /\ currentStep' = currentStep
                    /\ runs'[r].frame
              /\ (StartStep /\ r = Len(runs')) =>
                    /\ progress' = Num(0, 1)
                    /\ currentStep' = currentStep
                    /\ isLoading'
                    /\ runs'[r].frame
              /\ (PendingRun(r) /\ runs'[r].apiPromise.state = "fulfilled") =>
                    /\ progress' = Num(100, 1)
                    /\ currentStep' = CompleteLabel
                    /\ runs'[r].timer = now * Granule + CompleteDelay
                    /\ runs'[r].returned = [state |-> "fulfilled",
                                            value |-> runs'[r].apiPromise.value]
              /\ (PendingRun(r) /\ runs'[r].apiPromise.state = "rejected") =>
                    /\ ~isLoading'
                    /\ runs'[r].returned = [state |-> "rejected",
                                            value |-> runs'[r].apiPromise.value]]_vars

\* a run with an empty list, fulfilled more than a step slot after its start
\* with the label still empty and its loop still scheduled
C15_Witness ==
    /\ Len(runs) = 1
    /\ runs[1].steps = <<>>
    /\ FulfilledRun(1)
    /\ Current(1)
    /\ Elapsed(1) > stepDuration
    /\ runs[1].frame
    /\ ~runs[1].crashed
    /\ progress = Num(100, 1)
    /\ isLoading

CompleteStep(r) ==
    /\ Len(runs) = r
    /\ Len(runs') = r
    /\ runs'[r].completes = runs[r].completes + 1

\* C17: completeProgress() sets progress to 100 and the complete label and
\* leaves isLoading as it is, with a timer due after the fixed delay; called
\* while progress is already 100 it changes neither progress nor the label;
\* and once every timer of a completed run has fired, isLoading is false.
C17_CompleteIdempotent ==
    /\ [][\A r \in 1..Len(runs) :
            CompleteStep(r) =>
                /\ progress' = Num(100, 1)
                /\ currentStep' = StepsOnlyCompleteLabel
                /\ isLoading' = isLoading
                /\ now * Granule + CompleteDelay \in runs'[r].timers
                /\ progress = Num(100, 1) =>
                       /\ progress' = progress
                       /\ currentStep' = currentStep]_vars
    /\ [](\A r \in 1..Len(runs) :
            (lastCall.kind = "complete" /\ runs[r].timers = {}) => ~isLoading)

\* completeProgress was called a second time while progress was 100, and
\* the timers have fired
C17_Witness ==
    /\ Len(runs) = 1
    /\ lastCall.kind = "complete"
    /\ runs[1].completes = 2
    /\ runs[1].timers = {}
    /\ progress = Num(100, 1)
    /\ currentStep = StepsOnlyCompleteLabel
    /\ ~isLoading

\* C21: for a list of one step, every animateProgress leaves the active
\* index at 0 and shows the step's label, and one that runs at
\* elapsed < 2000 sets progress to elapsed / 2000 * 98, which is below 98.
C21_SingleStepPartial ==
    [][\A r \in 1..Len(runs') :
          (AnimateProgressStep(r) /\ Len(runs'[r].steps) = 1) =>
              LET elapsed == now' * Granule - runs'[r].startTime
              IN /\ runs'[r].stepIndex = 0
                 /\ currentStep' = runs'[r].steps[1].label
                 /\ elapsed < stepDuration =>
                        /\ progress' = Num(elapsed * ProgressCap, stepDuration)
                        /\ Leq(progress', Num(ProgressCap, 1))
                        /\ progress' # Num(ProgressCap, 1)]_vars

\* one step of weight 2, a tick at 1000 ms: progress 49
C21_Witness ==
    /\ Len(runs) = 1
    /\ [i \in 1..Len(runs[1].steps) |-> runs[1].steps[i].weight] = <<2>>
    /\ Elapsed(1) = Granule
    /\ runs[1].stepIndex = 0
    /\ currentStep = "Fetching"
    /\ progress = Num(49, 1)

\* C22: in every state of a hook instance of either variant, started any
\* number of times with non-empty lists of positive weights or durations,
\* progress is a number from 0 to 100.
C22_ProgressInRange ==
    /\ ~IsNaN(progress)
    /\ Leq(Num(0, 1), progress)
    /\ Leq(progress, Num(100, 1))

\* a fixed-duration instance started twice, showing 100 by the clamp while
\* its second run is still walking its steps
C22_Witness ==
    /\ Len(runs) = 2
    /\ FixedHook
    /\ runs[2].k <= Len(runs[2].steps)
    /\ progress = Num(100, 1)

\* the number of calls of apiCall among the first k entries of a run's order
RECURSIVE Invocations(_, _)
Invocations(order, k) ==
    IF k = 0 THEN 0
    ELSE Invocations(order, k - 1) + (IF order[k] = "apiCall" THEN 1 ELSE 0)

\* C23: every run has called its operation once, before its first
\* animateProgress, and no step of a run calls it again.
C23_InvokedOnce ==
    /\ [](\A r \in 1..Len(runs) :
            /\ Invocations(runs[r].order, Len(runs[r].order)) = 1
            /\ runs[r].order[1] = "apiCall")
    /\ [][\A r \in 1..Len(runs) : runs'[r].order = runs[r].order]_vars

\* a run whose operation rejected and whose loop went on ticking afterwards
C23_Witness ==
    /\ Len(runs) = 1
    /\ RejectedRun(1)
    /\ runs[1].order = <<"apiCall", "animateProgress">>
    /\ runs[1].slot >= 1

\* C24: once resetProgress has been called and startProgress has not been
\* called again, no run sets progress or the label and none calls onComplete.
C24_ResetCancelsFixed ==
    [][(lastCall.kind = "reset" /\ lastCall' = lastCall) =>
          /\ progress' = progress
          /\ currentStep' = currentStep
          /\ \A r \in 1..Len(runs) : runs'[r].completed = runs[r].completed]_vars

\* C25: in the step in which the promise a call of startDynamicProgress
\* returned becomes rejected, isLoading is false afterwards.
C25_FailureClearsLoading ==
    [][\A r \in 1..Len(runs') :
          (/\ runs'[r].returned.state = "rejected"
           /\ (r \in 1..Len(runs) => runs[r].returned.state # "rejected"))
          => ~isLoading']_vars

\* the share of the first k steps: (d_1 + ... + d_k) / totalDuration * 100
ShareOfFirst(steps, k) == Num(SumDurations(steps, k) * 100, totalDuration(steps))

\* C26: in a startProgress run that is not reset, currentProgress never
\* exceeds the shares of the steps entered so far; while step k is animating,
\* progress lies between the share of the steps before k and the share of
\* the steps up to k; and progress is 100 only once totalDuration has passed.
C26_ShareAddedOnce ==
    \A r \in 1..Len(runs) :
        LET run == runs[r]
            n == Len(run.steps)
        IN lastCall.kind = "start" =>
              /\ Leq(run.currentProgress, ShareOfFirst(run.steps, Min(run.k, n)))
              /\ run.k <= n =>
                     /\ Leq(ShareOfFirst(run.steps, run.k - 1), progress)
                     /\ Leq(progress, ShareOfFirst(run.steps, run.k))
              /\ progress = Num(100, 1) =>
                     now * Granule - run.startedAt >= totalDuration(run.steps)

\* C27: a startProgress run calls onComplete at most once, in a step that
\* also sets isLoading false, after the loop has left its last step and set
\* progress to 100, and no sooner than totalDuration + 500 ms after the
\* call; once the loop has ended, either the 500 ms timer is pending or
\* onComplete has been called once.
C27_OnCompleteOnce ==
    /\ [](\A r \in 1..Len(runs) :
            LET run == runs[r]
            IN lastCall.kind = "start" =>
                  /\ run.completed <= 1
                  /\ run.completed = 1 => run.k = Len(run.steps) + 1
                  /\ run.k = Len(run.steps) + 1 =>
                         (run.timer # NoTimer) # (run.completed = 1))
    /\ [][\A r \in 1..Len(runs) :
            (lastCall.kind = "start" /\ runs'[r].completed # runs[r].completed) =>
                /\ runs'[r].completed = runs[r].completed + 1
                /\ ~isLoading'
                /\ runs[r].k = Len(runs[r].steps) + 1
                /\ now * Granule - runs[r].startedAt
                       >= totalDuration(runs[r].steps) + FixedCompleteDelay]_vars

\* two steps walked, then onComplete called
C27_Witness ==
    /\ Len(runs) = 1
    /\ lastCall.kind = "start"
    /\ Len(runs[1].steps) = 2
    /\ runs[1].completed = 1
    /\ runs[1].timer = NoTimer
    /\ ~isLoading

\* C28: no two entries of the users map have the same email.
C28_UniqueEmails ==
    \A i \in DOMAIN users : \A j \in DOMAIN users :
        i # j => users[i].email # users[j].email

\* C29: a handler's write to a user's entry keeps what the other handlers
\* have written: the step that sets the Stripe customer or the subscription
\* leaves the profile as it is in the map, and the profile update leaves the
\* Stripe customer and the subscription as they are.
C29_NoLostUpdate ==
    [][\A id \in DOMAIN users :
          \/ users'[id].firstName = users[id].firstName
          \/ /\ users'[id].stripeCustomerId = users[id].stripeCustomerId
             /\ users'[id].subscriptionPlan = users[id].subscriptionPlan]_vars

\* a user object that carries a password hash
CarriesHash(object) == "password" \in DOMAIN object /\ object.password # ""

====
